---- MODULE Spec2Model ----
(***************************************************************************)
(* llynx: the enabled-set reconciler (list_enabled / enable / disable)     *)
(* over a VS Code settings file and a LuaRocks tree.                       *)
(*                                                                         *)
(* Strings are sequences of one-character strings, so that path parsing    *)
(* (std::path::Path on Unix) and substring tests are computed, not         *)
(* assumed.  Option<T> is a sequence of length at most one.                *)
(***************************************************************************)
EXTENDS Integers, Sequences, FiniteSets, TLC

VARIABLES
    tree,       \* the --tree argument (a string)
    rocks,      \* rows printed by `luarocks --tree <tree> list --porcelain`
    settings,   \* the settings file: missing, or its text
    before,     \* the settings file as it was when the last command started
    last,       \* the last command run and what it returned
    calls       \* the enable and disable calls running side by side

vars == <<tree, rocks, settings, before, last, calls>>

----------------------------------------------------------------------------
(* Option and Result values *)

None == <<>>
Some(x) == <<x>>

Ok(v) == [tag |-> "Ok", val |-> v]
Err(e) == [tag |-> "Err", val |-> e]
\* a failed expect(): the process aborts
Panic(m) == [tag |-> "Panic", val |-> m]

----------------------------------------------------------------------------
(* String literals *)

TYPES == <<"t", "y", "p", "e", "s">>
LIB == <<"l", "i", "b">>
LUAROCKS == <<"l", "u", "a", "r", "o", "c", "k", "s">>
SLASH == <<"/">>

\* path components: RootDir, CurDir and ParentDir are told apart from Normal
\* components by their text, which no Normal component can have
RootDir == <<"/">>
CurDir == <<".">>
ParentDir == <<".", ".">>

LIB_SETTINGS_KEY == "Lua.workspace.library"

----------------------------------------------------------------------------
(* std::path on Unix *)

RECURSIVE NextSlash(_, _)
\* the position of the first '/' of s at or after i, Len(s) + 1 when none
NextSlash(s, i) ==
    IF i > Len(s) \/ s[i] = "/" THEN i ELSE NextSlash(s, i + 1)

RECURSIVE PiecesFrom(_, _)
PiecesFrom(s, i) ==
    IF i > Len(s) + 1 THEN <<>>
    ELSE LET j == NextSlash(s, i)
         IN  <<SubSeq(s, i, j - 1)>> \o PiecesFrom(s, j + 1)

\* the pieces of s between '/' characters, empty pieces included
SplitSlash(s) == PiecesFrom(s, 1)

has_root(s) == s # <<>> /\ Head(s) = "/"

is_relative(s) == ~has_root(s)

\* Path::components: empty pieces and '.' pieces are dropped, except a
\* leading '.' of a path without a root; '..' is kept
Components(s) ==
    LET segs == SplitSlash(s)
        front == IF has_root(s) THEN <<RootDir>>
                 ELSE IF Head(segs) = CurDir THEN <<CurDir>>
                 ELSE <<>>
    IN  front \o SelectSeq(segs, LAMBDA x : x # <<>> /\ x # CurDir)

IsPrefixSeq(a, b) == Len(a) <= Len(b) /\ SubSeq(b, 1, Len(a)) = a

IsSuffixSeq(a, b) == Len(a) <= Len(b) /\ SubSeq(b, Len(b) - Len(a) + 1, Len(b)) = a

\* Path::starts_with / Path::ends_with compare whole components
starts_with(s, base) == IsPrefixSeq(Components(base), Components(s))

ends_with(s, child) == IsSuffixSeq(Components(child), Components(s))

\* Path::parent, on the components of a path
parent(comps) ==
    IF comps = <<>> \/ comps[Len(comps)] = RootDir
    THEN None
    ELSE Some(SubSeq(comps, 1, Len(comps) - 1))

\* Path::file_name, on the components of a path
file_name(comps) ==
    IF comps # <<>> /\ comps[Len(comps)] \notin {RootDir, CurDir, ParentDir}
    THEN Some(comps[Len(comps)])
    ELSE None

\* PathBuf::push / Path::join
push(p, seg) ==
    IF has_root(seg) THEN seg
    ELSE IF p = <<>> \/ p[Len(p)] = "/" THEN p \o seg
    ELSE p \o SLASH \o seg

RECURSIVE JoinComponents(_)
JoinComponents(comps) ==
    IF comps = <<>> THEN <<>>
    ELSE IF Len(comps) = 1 THEN Head(comps)
    ELSE Head(comps) \o SLASH \o JoinComponents(Tail(comps))

\* path.strip_prefix(base).unwrap_or(path); the paths given to it here are
\* built by push from well-formed directories, so what is left of the string
\* after the prefix is its remaining components joined by '/'
strip_prefix_or(p, base) ==
    IF IsPrefixSeq(Components(base), Components(p))
    THEN JoinComponents(SubSeq(Components(p), Len(Components(base)) + 1,
                               Len(Components(p))))
    ELSE p

\* str::contains
contains(s, pat) ==
    \E i \in 0..(Len(s) - Len(pat)) : SubSeq(s, i + 1, i + Len(pat)) = pat

----------------------------------------------------------------------------
(* The settings file.  A text is modelled by what the JSONC parser makes   *)
(* of it: nothing (empty or only comments), a syntax error, a value that   *)
(* is not an object, or an object given by its members in file order.      *)

Missing == [kind |-> "missing", members |-> <<>>]
EmptyText == [kind |-> "empty", members |-> <<>>]
MalformedText == [kind |-> "malformed", members |-> <<>>]
NonObjectText == [kind |-> "nonobject", members |-> <<>>]
ObjectText(members) == [kind |-> "object", members |-> members]

JNull == [t |-> "null", items |-> <<>>]
JStrings(l) == [t |-> "strings", items |-> l]
\* any other JSON value, told apart by its text
JOther(v) == [t |-> v, items |-> <<>>]

Member(k, v) == [key |-> k, val |-> v]

\* the order in which serde_json::Map (a BTreeMap) iterates its keys
KeyOrder == <<"editor.tabSize", "files.eol">>

\* a JSON object as a map: of two members with one key the later one stays
ObjectMap(members) ==
    [k \in {members[i].key : i \in DOMAIN members} |->
        LET i == CHOOSE i \in DOMAIN members :
                    /\ members[i].key = k
                    /\ \A j \in DOMAIN members : members[j].key = k => j <= i
        IN  members[i].val]

\* parse_to_serde_value as it would be if it took text with a syntax error
\* for text without a value
parse_to_serde_value_lenient(contents) ==
    CASE contents.kind \in {"malformed", "empty"} -> Ok(None)
      [] contents.kind = "nonobject" -> Ok(Some([object |-> FALSE, map |-> <<>>]))
      [] contents.kind = "object" ->
            Ok(Some([object |-> TRUE, map |-> ObjectMap(contents.members)]))

\* jsonc_parser::parse_to_serde_value: Result<Option<Value>>
parse_to_serde_value(contents) ==
    CASE contents.kind = "malformed" -> Err("parse")
      [] contents.kind = "empty" -> Ok(None)
      [] contents.kind = "nonobject" -> Ok(Some([object |-> FALSE, map |-> <<>>]))
      [] contents.kind = "object" ->
            Ok(Some([object |-> TRUE, map |-> ObjectMap(contents.members)]))

VSCodeSettings(library, rest) == [library |-> library, rest |-> rest]

VSCodeSettings_default == VSCodeSettings(None, <<>>)

\* from_value as it would be with `library: Vec<String>`: a missing key is an
\* error
from_value_library_required(value) ==
    IF ~value.object THEN Err("compile")
    ELSE LET map == value.map
             rest == [k \in (DOMAIN map) \ {LIB_SETTINGS_KEY} |-> map[k]]
         IN  IF LIB_SETTINGS_KEY \in DOMAIN map /\ map[LIB_SETTINGS_KEY].t = "strings"
             THEN Ok(VSCodeSettings(Some(map[LIB_SETTINGS_KEY].items), rest))
             ELSE Err("compile")

\* serde_json::from_value::<VSCodeSettings>: the renamed key goes to library
\* (null and absent are None), every other key is flattened into rest
from_value(value) ==
    IF ~value.object THEN Err("compile")
    ELSE LET map == value.map
             rest == [k \in (DOMAIN map) \ {LIB_SETTINGS_KEY} |-> map[k]]
         IN  IF LIB_SETTINGS_KEY \notin DOMAIN map THEN Ok(VSCodeSettings(None, rest))
             ELSE IF map[LIB_SETTINGS_KEY].t = "null" THEN Ok(VSCodeSettings(None, rest))
             ELSE IF map[LIB_SETTINGS_KEY].t = "strings"
                  THEN Ok(VSCodeSettings(Some(map[LIB_SETTINGS_KEY].items), rest))
             ELSE Err("compile")

RECURSIVE MembersOf(_, _)
MembersOf(rest, keys) ==
    IF keys = <<>> THEN <<>>
    ELSE <<Member(Head(keys), rest[Head(keys)])>> \o MembersOf(rest, Tail(keys))

\* to_string as it would be without the flattened rest
to_string_library_only(vs) ==
    ObjectText(
        <<Member(LIB_SETTINGS_KEY,
                 IF vs.library = None THEN JNull ELSE JStrings(vs.library[1]))>>)

\* serde_json::to_string(&vscode_settings): the library field first, then the
\* flattened map in its iteration order
to_string(vs) ==
    ObjectText(
        <<Member(LIB_SETTINGS_KEY,
                 IF vs.library = None THEN JNull ELSE JStrings(vs.library[1]))>>
        \o MembersOf(vs.rest, SelectSeq(KeyOrder, LAMBDA k : k \in DOMAIN vs.rest)))

----------------------------------------------------------------------------
(* Addons *)

Addon(name, version, location) ==
    [name |-> name, version |-> version, location |-> location]

\* == on Addon as it would be if it looked at the name and version only
Addon_eq_ignoring_location(a, b) == a.name = b.name /\ a.version = b.version

\* == on Addon, from #[derive(PartialEq)]: every field in turn
Addon_eq(a, b) ==
    a.name = b.name /\ a.version = b.version /\ a.location = b.location

\* env::current_dir()
Cwd == <<"/", "w">>

\* the location column LuaRocks prints for a tree: the absolute rocks
\* directory of that tree
RocksDir(t) == push(push(push(push(Cwd, t), LIB), LUAROCKS), <<"r">>)

InstalledAddonRecord(name, version, location) ==
    [name |-> name, version |-> version, location |-> location]

\* list_installed: LuaRocks lists the rocks whose name matches the filter;
\* each row's location is its rocks directory with the name, the version and
\* "types" pushed on, relative to the current directory when under it
list_installed(t, rows, filter) ==
    LET listed == IF filter = None THEN rows
                  ELSE SelectSeq(rows, LAMBDA r : contains(r.name, filter[1]))
        toAddon(record) ==
            LET path == push(push(push(record.location, record.name),
                                  record.version), TYPES)
            IN  Addon(record.name, record.version, Some(strip_prefix_or(path, Cwd)))
    IN  Ok([i \in DOMAIN listed |-> toAddon(listed[i])])

----------------------------------------------------------------------------
(* enabled.rs *)

\* from_results as it would be if it wrapped a lone failure as well
from_results_always_wrapped(results) ==
    LET oks == SelectSeq(results, LAMBDA r : r.tag = "Ok")
        errs == SelectSeq(results, LAMBDA r : r.tag = "Err")
    IN  IF Len(errs) = 0 THEN Ok([i \in DOMAIN oks |-> oks[i].val])
        ELSE Err([aggregate |-> [i \in DOMAIN errs |-> errs[i].val]])

\* AggregateError::from_results: the successes in order, the one failure
\* itself, or the failures together
from_results(results) ==
    LET oks == SelectSeq(results, LAMBDA r : r.tag = "Ok")
        errs == SelectSeq(results, LAMBDA r : r.tag = "Err")
    IN  IF Len(errs) = 0 THEN Ok([i \in DOMAIN oks |-> oks[i].val])
        ELSE IF Len(errs) = 1 THEN Err(errs[1].val)
        ELSE Err([aggregate |-> [i \in DOMAIN errs |-> errs[i].val]])

NEWLINE == <<"\n">>

\* an anyhow::Error made from a message
anyhow(message) == [message |-> message]

\* Display for AggregateError: writeln! of each source in turn
RECURSIVE fmt(_)
fmt(sources) ==
    IF sources = <<>> THEN <<>>
    ELSE Head(sources).message \o NEWLINE \o fmt(Tail(sources))

\* Error::source for AggregateError: the first failure
source(sources) == Some(sources[1])

\* the filter closure as it would be with str::starts_with and
\* str::ends_with in place of the path ones
accepts_by_text(t, s) ==
    LET addons_matcher == t \o SLASH \o LIB \o SLASH \o LUAROCKS
    IN  is_relative(s) /\ IsPrefixSeq(addons_matcher, s) /\ IsSuffixSeq(TYPES, s)

\* the filter closure of list_enabled
accepts(t, s) ==
    LET addons_matcher == t \o SLASH \o LIB \o SLASH \o LUAROCKS
    IN  is_relative(s) /\ starts_with(s, addons_matcher) /\ ends_with(s, TYPES)

\* the map closure of list_enabled; a library entry is a String, so to_str()
\* always gives Some
decode(s) ==
    LET path == Components(s)
        version == parent(path)
    IN  IF version = None THEN Panic("path has at least two parents")
        ELSE LET name == parent(version[1])
             IN  IF name = None THEN Panic("path has at least one parent")
                 ELSE IF file_name(name[1]) = None \/ file_name(version[1]) = None
                      THEN Panic("directory starts with addons_matcher")
                 ELSE Ok(Addon(file_name(name[1])[1], file_name(version[1])[1], Some(s)))

\* list_enabled, from the file's state to its return value
list_enabled(t, settings_file, filter) ==
    IF settings_file.kind = "missing" THEN Ok(<<>>)
    ELSE LET maybe_value_parsed == parse_to_serde_value(settings_file)
         IN  IF maybe_value_parsed.tag = "Err" THEN maybe_value_parsed
             ELSE IF maybe_value_parsed.val = None THEN Ok(<<>>)
             ELSE LET vscode_settings == from_value(maybe_value_parsed.val[1])
                  IN  IF vscode_settings.tag = "Err" THEN vscode_settings
                      ELSE IF vscode_settings.val.library = None THEN Ok(<<>>)
                      ELSE LET library == vscode_settings.val.library[1]
                               accepted == SelectSeq(library, LAMBDA s : accepts(t, s))
                               decoded == [i \in DOMAIN accepted |-> decode(accepted[i])]
                               addons_unfiltered == from_results(decoded)
                           IN  IF \E i \in DOMAIN decoded : decoded[i].tag = "Panic"
                               THEN decoded[CHOOSE i \in DOMAIN decoded :
                                        /\ decoded[i].tag = "Panic"
                                        /\ \A j \in 1..(i - 1) : decoded[j].tag # "Panic"]
                               ELSE IF addons_unfiltered.tag = "Err" THEN addons_unfiltered
                               ELSE IF filter = None THEN addons_unfiltered
                               ELSE Ok(SelectSeq(addons_unfiltered.val,
                                          LAMBDA addon : contains(addon.name, filter[1])))

\* what a command leaves behind: its return value and the settings file
Outcome(res, file) == [res |-> res, file |-> file]

\* the closure enable_in_library(path), called with the library
enable_in_library(path, library) == Append(library, path)

\* disable_in_library as it would be if it removed the first match only
disable_in_library_first(path, library) ==
    IF \E i \in DOMAIN library : library[i] = path
    THEN LET i == CHOOSE i \in DOMAIN library :
                    /\ library[i] = path
                    /\ \A j \in 1..(i - 1) : library[j] # path
         IN  SubSeq(library, 1, i - 1) \o SubSeq(library, i + 1, Len(library))
    ELSE library

\* disable_in_library as it would be if it removed every entry under the
\* directory that holds the path
disable_in_library_under_parent(path, library) ==
    SelectSeq(library,
        LAMBDA loc : ~IsPrefixSeq(parent(Components(path))[1], Components(loc)))

\* the closure disable_in_library(path), called with the library
disable_in_library(path, library) == SelectSeq(library, LAMBDA loc : loc # path)

\* an `impl FnOnce(Vec<String>) -> Vec<String>`: the function that made the
\* closure and the path it captured
Closure(fn, path) == [fn |-> fn, path |-> path]

call_once(f, library) ==
    IF f.fn = "enable_in_library" THEN enable_in_library(f.path, library)
    ELSE disable_in_library(f.path, library)

\* update_library: read (a missing file reads as ""), parse, replace the
\* library by f of it, serialise, write
update_library(settings_file, f) ==
    LET contents == IF settings_file.kind = "missing" THEN EmptyText ELSE settings_file
        maybe_value_parsed == parse_to_serde_value(contents)
    IN  IF maybe_value_parsed.tag = "Err" THEN Outcome(maybe_value_parsed, settings_file)
        ELSE LET compiled == IF maybe_value_parsed.val = None
                             THEN Ok(VSCodeSettings_default)
                             ELSE from_value(maybe_value_parsed.val[1])
             IN  IF compiled.tag = "Err" THEN Outcome(compiled, settings_file)
                 ELSE LET old == IF compiled.val.library = None THEN <<>>
                                 ELSE compiled.val.library[1]
                          vscode_settings ==
                              VSCodeSettings(Some(call_once(f, old)), compiled.val.rest)
                      IN  Outcome(Ok(<<>>), to_string(vscode_settings))

\* the path get_addon_path makes of an addon's location: Path::join("types")
types_path(location) == push(location, TYPES)

\* get_addon_path: the first installed addon with exactly this name, its
\* location joined with "types"
get_addon_path(t, rows, name) ==
    LET installed == list_installed(t, rows, Some(name)).val
        found == SelectSeq(installed, LAMBDA addon : addon.name = name)
    IN  IF found = <<>> THEN Err([not_installed |-> name])
        ELSE Ok(types_path(found[1].location[1]))

\* the already-enabled test as it would be with the filter's substring match
already_enabled_contains(addons, name) ==
    \E i \in DOMAIN addons : contains(addons[i].name, name)

\* the already-enabled test of enable
already_enabled(addons, name) == \E i \in DOMAIN addons : addons[i].name = name

\* the already-disabled test of disable
already_disabled(addons, name) == \E i \in DOMAIN addons : addons[i].name # name

enable(t, rows, settings_file, name) ==
    LET enabled == list_enabled(t, settings_file, Some(name))
    IN  IF enabled.tag # "Ok" THEN Outcome(enabled, settings_file)
        ELSE IF already_enabled(enabled.val, name) THEN Outcome(Ok(<<>>), settings_file)
        ELSE LET addon_to_enable == get_addon_path(t, rows, name)
             IN  IF addon_to_enable.tag = "Err" THEN Outcome(addon_to_enable, settings_file)
                 ELSE update_library(settings_file,
                        Closure("enable_in_library", addon_to_enable.val))

disable(t, rows, settings_file, name) ==
    LET enabled == list_enabled(t, settings_file, Some(name))
    IN  IF enabled.tag # "Ok" THEN Outcome(enabled, settings_file)
        ELSE IF already_disabled(enabled.val, name) THEN Outcome(Ok(<<>>), settings_file)
        ELSE LET addon_to_disable == get_addon_path(t, rows, name)
             IN  IF addon_to_disable.tag = "Err" THEN Outcome(addon_to_disable, settings_file)
                 ELSE update_library(settings_file,
                        Closure("disable_in_library", addon_to_disable.val))

----------------------------------------------------------------------------
(* installed.rs: install and remove forward to LuaRocks and return Ok      *)
(* whatever LuaRocks did                                                   *)

RemoveAt(q, i) == SubSeq(q, 1, i - 1) \o SubSeq(q, i + 1, Len(q))

InsertAt(q, i, x) == SubSeq(q, 1, i - 1) \o <<x>> \o SubSeq(q, i, Len(q))

\* the listings LuaRocks may print after `install name [version]`, when
\* `available` are the versions of the rock it can find: unchanged when it
\* fails or the rock is there, else with the rock's row somewhere
install(t, rows, name, version, available) ==
    LET wanted == IF version = None THEN available ELSE {version[1]} \cap available
        with(v) ==
            LET row == InstalledAddonRecord(name, v, RocksDir(t))
            IN  IF \E i \in DOMAIN rows : rows[i] = row THEN {rows}
                ELSE {InsertAt(rows, i, row) : i \in 1..(Len(rows) + 1)}
    IN  {rows} \cup UNION {with(v) : v \in wanted}

\* the listings LuaRocks may print after `remove name [version]`
remove(t, rows, name, version) ==
    {rows,
     SelectSeq(rows, LAMBDA r : ~(r.name = name /\ (version = None \/ r.version = version[1])))}

----------------------------------------------------------------------------
(* Bounds and inputs *)

\* the longest library list of an initial settings file
MaxInitLib == 1
\* enable is not run on a library list this long
MaxLib == 3
\* the longest library list of a settings file that is only listed
MaxListLib == 2

NameS == <<"s">>
NameSX == <<"s", "x">>
Names == {NameS, NameSX}
Versions == {<<"1">>, <<"2">>}
\* --tree arguments: a directory under the current one and an absolute one
RelativeTree == <<"t">>
Trees == {RelativeTree, <<"/", "o">>}
Filters == {None} \cup {Some(n) : n \in Names}

\* the rocks LuaRocks can have in a tree
RockNames == {NameS}
VersionArgs == {None} \cup {Some(v) : v \in Versions}
RockRows(t) == {InstalledAddonRecord(n, v, RocksDir(t)) : n \in RockNames, v \in Versions}

\* a listing names each installed rock once
Listings(t) ==
    {q \in UNION {[1..n -> RockRows(t)] : n \in 0..Cardinality(RockRows(t))} :
        \A i, j \in DOMAIN q : i # j => q[i] # q[j]}

Prefix(t) == t \o SLASH \o LIB \o SLASH \o LUAROCKS

EntryS1(t) == Prefix(t) \o <<"/", "r", "/", "s", "/", "1", "/">> \o TYPES
EntrySX1(t) == Prefix(t) \o <<"/", "r", "/", "s", "x", "/", "1", "/">> \o TYPES
EntryDotDot(t) == Prefix(t) \o <<"/", ".", ".", "/">> \o TYPES
EntryOutside == <<"u", "/">> \o TYPES

\* strings a user may have put in the library list before toggling addons
ToggleEntries(t) == {EntryS1(t), EntrySX1(t), EntryDotDot(t)}

\* strings a user may have put in the library list, for listing
ListEntries(t) ==
    ToggleEntries(t) \cup
    { EntryOutside,
      Prefix(t) \o <<"/">> \o TYPES,
      Prefix(t) \o <<"x", "/", "r", "/", "s", "/", "1", "/">> \o TYPES,
      Prefix(t) \o <<"/", "r", "/", "s", "/", "1">>,
      t \o <<"/", "/">> \o LIB \o <<"/", ".", "/">> \o LUAROCKS
        \o <<"/", "r", "/", "s", "/", "2", "/">> \o TYPES \o <<"/">>,
      <<"/", "u", "/">> \o TYPES }

Libraries(entries, n) == UNION {[1..m -> entries] : m \in 0..n}

\* the other settings of an initial file, in file order
InitRests ==
    { <<>>,
      <<Member("files.eol", JOther("lf")), Member("editor.tabSize", JOther("4")),
        Member("editor.tabSize", JOther("2"))>> }

InitLibraryMembers(libraries) ==
    {<<>>, <<Member(LIB_SETTINGS_KEY, JNull)>>, <<Member(LIB_SETTINGS_KEY, JOther("4"))>>}
    \cup {<<Member(LIB_SETTINGS_KEY, JStrings(l))>> : l \in libraries}

InitSettings(libraries) ==
    {Missing, EmptyText, MalformedText, NonObjectText}
    \cup {ObjectText(r \o m) : r \in InitRests, m \in InitLibraryMembers(libraries)}

\* the library list a settings file holds, empty when it holds none
LibraryOf(file) ==
    IF /\ file.kind = "object"
       /\ LIB_SETTINGS_KEY \in DOMAIN ObjectMap(file.members)
       /\ ObjectMap(file.members)[LIB_SETTINGS_KEY].t = "strings"
    THEN ObjectMap(file.members)[LIB_SETTINGS_KEY].items
    ELSE <<>>

\* the file is an object whose library is absent, null or a list of strings
NoLibraryOrStrings(file) ==
    /\ file.kind = "object"
    /\ LIB_SETTINGS_KEY \in DOMAIN ObjectMap(file.members) =>
          ObjectMap(file.members)[LIB_SETTINGS_KEY].t \in {"null", "strings"}

\* the settings of a file other than the library, as a map
RestOf(file) ==
    IF file.kind = "object"
    THEN [k \in (DOMAIN ObjectMap(file.members)) \ {LIB_SETTINGS_KEY} |->
            ObjectMap(file.members)[k]]
    ELSE <<>>

----------------------------------------------------------------------------
(* The commands *)

Ran(op, arg, res) == [op |-> op, arg |-> arg, res |-> res]

Init ==
    /\ tree = RelativeTree
    /\ rocks \in Listings(tree)
    /\ settings \in InitSettings(Libraries(ToggleEntries(tree), MaxInitLib))
    /\ before = settings
    /\ last = Ran("none", None, Ok(<<>>))
    /\ calls = <<>>

ListEnabled(filter) ==
    /\ last' = Ran("list_enabled", filter, list_enabled(tree, settings, filter))
    /\ before' = settings
    /\ UNCHANGED <<tree, rocks, settings, calls>>

Enable(name) ==
    /\ Len(LibraryOf(settings)) < MaxLib
    /\ LET out == enable(tree, rocks, settings, name)
       IN  /\ settings' = out.file
           /\ last' = Ran("enable", Some(name), out.res)
    /\ before' = settings
    /\ UNCHANGED <<tree, rocks, calls>>

Disable(name) ==
    /\ LET out == disable(tree, rocks, settings, name)
       IN  /\ settings' = out.file
           /\ last' = Ran("disable", Some(name), out.res)
    /\ before' = settings
    /\ UNCHANGED <<tree, rocks, calls>>

Install(name, version) ==
    /\ rocks' \in install(tree, rocks, name, version, Versions)
    /\ last' = Ran("install", Some(name), Ok(<<>>))
    /\ before' = settings
    /\ UNCHANGED <<tree, settings, calls>>

Remove(name, version) ==
    /\ rocks' \in remove(tree, rocks, name, version)
    /\ last' = Ran("remove", Some(name), Ok(<<>>))
    /\ before' = settings
    /\ UNCHANGED <<tree, settings, calls>>

Next ==
    \/ \E filter \in Filters : ListEnabled(filter)
    \/ \E name \in Names : Enable(name)
    \/ \E name \in Names : Disable(name)
    \/ \E name \in RockNames, version \in VersionArgs : Install(name, version)
    \/ \E name \in RockNames, version \in VersionArgs : Remove(name, version)

Spec == Init /\ [][Next]_vars

\* the commands, from a settings file without addon entries
InitFresh ==
    /\ Init
    /\ \A i \in DOMAIN LibraryOf(settings) : ~accepts(tree, LibraryOf(settings)[i])

SpecFresh == InitFresh /\ [][Next]_vars

\* list_enabled alone, over every settings file of ListEntries
InitList ==
    /\ tree \in Trees
    /\ rocks = <<>>
    /\ settings \in InitSettings(Libraries(ListEntries(tree), MaxListLib))
    /\ before = settings
    /\ last = Ran("none", None, Ok(<<>>))
    /\ calls = <<>>

NextList == \E filter \in Filters : ListEnabled(filter)

SpecList == InitList /\ [][NextList]_vars

----------------------------------------------------------------------------
(* AggregateError::from_results on its own, over every short sequence of   *)
(* results                                                                 *)

\* the longest sequence of results collected
MaxResults == 3

\* error messages; the first is a part of the others
Messages == {<<"e">>, <<"e", "1">>, <<"e", "2">>}
ResultValues == {Ok(NameS), Ok(NameSX)} \cup {Err(anyhow(m)) : m \in Messages}
ResultSeqs == UNION {[1..n -> ResultValues] : n \in 0..MaxResults}

InitResults ==
    /\ tree = RelativeTree
    /\ rocks = <<>>
    /\ settings = Missing
    /\ before = Missing
    /\ last = Ran("none", None, Ok(<<>>))
    /\ calls = <<>>

FromResults(results) ==
    /\ last' = Ran("from_results", results, from_results(results))
    /\ UNCHANGED <<tree, rocks, settings, before, calls>>

NextResults == \E results \in ResultSeqs : FromResults(results)

SpecResults == InitResults /\ [][NextResults]_vars

----------------------------------------------------------------------------
(* main.rs: the configuration main computes from the command line and the  *)
(* config file                                                             *)

CONFIG_PATH == ".llynx.toml"
LUAROCKS_PATH == "luarocks"
ADDONS_DIR == ".lls_addons"
LUAROCKS_ENDPOINT == "https://luarocks.org/m/lls-addons"
SETTINGS_FILE == ".vscode/settings.json"

unwrap_or(option, default) == IF option = None THEN default ELSE option[1]

MaybeConfig(luarocks, tree_, settings_, server, verbose) ==
    [luarocks |-> luarocks, tree |-> tree_, settings |-> settings_,
     server |-> server, verbose |-> verbose]

Cli(config, luarocks, tree_, settings_, server, verbose) ==
    [config |-> config, luarocks |-> luarocks, tree |-> tree_,
     settings |-> settings_, server |-> server, verbose |-> verbose]

\* impl From<&Cli> for MaybeConfig
MaybeConfig_from(cli) ==
    MaybeConfig(cli.luarocks,
                cli.luarocks,
                cli.settings,
                cli.server,
                IF cli.verbose = 0 THEN None ELSE Some(cli.verbose))

Config(luarocks, tree_, settings_, server, verbose) ==
    [luarocks |-> luarocks, tree |-> tree_, settings |-> settings_,
     server |-> server, verbose |-> verbose]

Config_default ==
    Config(LUAROCKS_PATH, ADDONS_DIR, SETTINGS_FILE, LUAROCKS_ENDPOINT, 0)

\* Config::extend
extend(self, maybe_config) ==
    Config(unwrap_or(maybe_config.luarocks, self.luarocks),
           unwrap_or(maybe_config.tree, self.tree),
           unwrap_or(maybe_config.settings, self.settings),
           unwrap_or(maybe_config.server, self.server),
           unwrap_or(maybe_config.verbose, self.verbose))

\* what reading and parsing the config file gives: no such file, another
\* I/O error, text that is not a MaybeConfig, or a MaybeConfig
NotFound == [kind |-> "NotFound"]
OtherIoError == [kind |-> "OtherIoError"]
NotToml == [kind |-> "NotToml"]
Toml(maybe_config) == [kind |-> "Toml", maybe_config |-> maybe_config]

\* the file main reads: the --config argument, or CONFIG_PATH
config_path(cli) == unwrap_or(cli.config, CONFIG_PATH)

\* the Config of main, or the error it returns; `file` is what reading
\* config_path(cli) gives
main_config(cli, file) ==
    LET default_config == Config_default
        cli_overrides == MaybeConfig_from(cli)
    IN  IF file.kind = "NotFound" /\ cli.config = None
        THEN Ok(extend(default_config, cli_overrides))
        ELSE IF file.kind \in {"NotFound", "OtherIoError"}
        THEN Err(anyhow("while opening config file"))
        ELSE IF file.kind = "NotToml"
        THEN Err(anyhow("while parsing config file"))
        ELSE Ok(extend(extend(default_config, file.maybe_config), cli_overrides))

\* the options of the command line and of the config file
OptionNames == {"luarocks", "tree", "settings", "server"}
Flags(k) == {None, Some("flag-" \o k)}
Keys(k) == {None, Some("file-" \o k)}
Verbosities == {0, 1}

Clis ==
    {Cli(c, l, t, s, v, n) :
        c \in {None, Some("other.toml")}, l \in Flags("luarocks"),
        t \in Flags("tree"), s \in Flags("settings"), v \in Flags("server"),
        n \in Verbosities}

ConfigFiles ==
    {NotFound, OtherIoError, NotToml} \cup
    {Toml(MaybeConfig(l, t, s, v, None)) :
        l \in Keys("luarocks"), t \in Keys("tree"), s \in Keys("settings"),
        v \in Keys("server")}

InitConfig ==
    /\ tree = RelativeTree
    /\ rocks = <<>>
    /\ settings = Missing
    /\ before = Missing
    /\ last = Ran("none", None, Ok(<<>>))
    /\ calls = <<>>

MainConfig(cli, file) ==
    /\ last' = Ran("main_config", [cli |-> cli, file |-> file], main_config(cli, file))
    /\ UNCHANGED <<tree, rocks, settings, before, calls>>

NextConfig == \E cli \in Clis, file \in ConfigFiles : MainConfig(cli, file)

SpecConfig == InitConfig /\ [][NextConfig]_vars

----------------------------------------------------------------------------
(* main.rs: == on Addon, over pairs of Addons as the three listings make   *)
(* them                                                                    *)

\* list_online gives no location, list_installed and list_enabled give one
Locations == {None, Some(EntryS1(RelativeTree)), Some(EntrySX1(RelativeTree))}
Addons == {Addon(n, v, l) : n \in Names, v \in Versions, l \in Locations}

InitAddons ==
    /\ tree = RelativeTree
    /\ rocks = <<>>
    /\ settings = Missing
    /\ before = Missing
    /\ last = Ran("none", None, Ok(<<>>))
    /\ calls = <<>>

Compare(a, b) ==
    /\ last' = Ran("eq", <<a, b>>, Ok(Addon_eq(a, b)))
    /\ UNCHANGED <<tree, rocks, settings, before, calls>>

NextAddons == \E a, b \in Addons : Compare(a, b)

SpecAddons == InitAddons /\ [][NextAddons]_vars

----------------------------------------------------------------------------
(* enable and disable calls of several llynx processes on one settings     *)
(* file, each taken apart at its reads and its write of the file, next to  *)
(* another program that rewrites the file                                  *)

Callers == {1, 2}

\* a call before its first step
Call(op, name) ==
    [op |-> op, name |-> name, pc |-> "check", seen |-> None, path |-> None,
     contents |-> None, res |-> None]

Returned(call, res) == [call EXCEPT !.pc = "done", !.res = Some(res)]

\* new_contents as it would be if update_library took the file as it is when
\* it writes
new_contents_of_file_now(contents, file_now, f) == update_library(file_now, f)

\* update_library from after its read: new_contents, or the error, made of
\* the contents read
new_contents(contents, file_now, f) == update_library(contents, f)

\* another program adds a library entry of its own to the file
external_update(file) ==
    to_string(VSCodeSettings(Some(Append(LibraryOf(file), EntryOutside)), RestOf(file)))

InitRace ==
    /\ tree = RelativeTree
    /\ rocks \in {q \in Listings(tree) : Len(q) = 1}
    /\ settings \in InitSettings(Libraries(ToggleEntries(tree), MaxInitLib))
    /\ before = settings
    /\ last = Ran("none", None, Ok(<<>>))
    /\ calls \in [Callers -> {Call(op, NameS) : op \in {"enable", "disable"}}]

\* the list_enabled call of enable and disable and the test on its result
Check(p) ==
    /\ calls[p].pc = "check"
    /\ LET call == [calls[p] EXCEPT !.seen = Some(settings)]
           enabled == list_enabled(tree, settings, Some(call.name))
       IN  calls' = [calls EXCEPT ![p] =
              IF enabled.tag # "Ok" THEN Returned(call, enabled)
              ELSE IF call.op = "enable" /\ already_enabled(enabled.val, call.name)
                   THEN Returned(call, Ok(<<>>))
              ELSE IF call.op = "disable" /\ already_disabled(enabled.val, call.name)
                   THEN Returned(call, Ok(<<>>))
              ELSE [call EXCEPT !.pc = "lookup"]]
    /\ UNCHANGED <<tree, rocks, settings, before, last>>

\* get_addon_path
Lookup(p) ==
    /\ calls[p].pc = "lookup"
    /\ LET addon_path == get_addon_path(tree, rocks, calls[p].name)
       IN  calls' = [calls EXCEPT ![p] =
              IF addon_path.tag = "Err" THEN Returned(calls[p], addon_path)
              ELSE [calls[p] EXCEPT !.pc = "read", !.path = Some(addon_path.val)]]
    /\ UNCHANGED <<tree, rocks, settings, before, last>>

\* fs::read_to_string of update_library
Read(p) ==
    /\ calls[p].pc = "read"
    /\ calls' = [calls EXCEPT ![p] =
                    [calls[p] EXCEPT !.pc = "write", !.contents = Some(settings)]]
    /\ UNCHANGED <<tree, rocks, settings, before, last>>

\* the rest of update_library: parse, change the library, fs::write
Write(p) ==
    /\ calls[p].pc = "write"
    /\ LET f == Closure(IF calls[p].op = "enable" THEN "enable_in_library"
                        ELSE "disable_in_library", calls[p].path[1])
           out == new_contents(calls[p].contents[1], settings, f)
       IN  /\ settings' = IF out.res.tag = "Ok" THEN out.file ELSE settings
           /\ calls' = [calls EXCEPT ![p] = Returned(calls[p], out.res)]
           /\ last' = Ran("write", p, out.res)
    /\ before' = settings
    /\ UNCHANGED <<tree, rocks>>

ExternalWrite ==
    /\ settings.kind \in {"missing", "empty"} \/ NoLibraryOrStrings(settings)
    /\ \A i \in DOMAIN LibraryOf(settings) : LibraryOf(settings)[i] # EntryOutside
    /\ \E p \in Callers : calls[p].pc # "done"
    /\ settings' = external_update(settings)
    /\ before' = settings
    /\ last' = Ran("external", None, Ok(<<>>))
    /\ UNCHANGED <<tree, rocks, calls>>

NextRace ==
    \/ \E p \in Callers : Check(p)
    \/ \E p \in Callers : Lookup(p)
    \/ \E p \in Callers : Read(p)
    \/ \E p \in Callers : Write(p)
    \/ ExternalWrite

SpecRace == InitRace /\ [][NextRace]_vars

----------------------------------------------------------------------------
(* Properties *)

\* the name the last command was given
LastName == last.arg[1]

\* list_installed reports an addon of this name
IsInstalled(name) ==
    LET installed == list_installed(tree, rocks, None).val
    IN  \E i \in DOMAIN installed : installed[i].name = name

\* list_enabled on this file reports an addon of this name
Reports(file, filter, name) ==
    LET enabled == list_enabled(tree, file, filter)
    IN  enabled.tag = "Ok" /\ \E i \in DOMAIN enabled.val : enabled.val[i].name = name

\* C1: enable is idempotent: once enable(name) has run for an installed name,
\* running enable(name) again leaves the library list as the first run left it.
C1_EnableIdempotent ==
    (last.op = "enable" /\ IsInstalled(LastName))
        => LibraryOf(enable(tree, rocks, settings, LastName).file) = LibraryOf(settings)

\* C2: whenever enable(name) returned Ok for an installed addon, list_enabled
\* on the same tree and file, with no filter and with filter name, returns an
\* Addon whose name is name.
C2_EnableMakesPresent ==
    (last.op = "enable" /\ last.res.tag = "Ok" /\ IsInstalled(LastName))
        => /\ Reports(settings, None, LastName)
           /\ Reports(settings, Some(LastName), LastName)

\* C3: for an installed name that list_enabled reported, after disable(name)
\* returned Ok list_enabled returns no Addon whose name is name.
C3_DisableMakesAbsent ==
    (/\ last.op = "disable"
     /\ last.res.tag = "Ok"
     /\ IsInstalled(LastName)
     /\ Reports(before, None, LastName))
        => /\ list_enabled(tree, settings, None).tag = "Ok"
           /\ ~Reports(settings, None, LastName)

\* C4: disable is the left inverse of enable: when the library list L did not
\* hold the addon's path and name is installed, enable(name) followed by
\* disable(name) leaves the library list equal to L.
C4_DisableInvertsEnable ==
    (/\ last.op = "enable"
     /\ IsInstalled(LastName)
     /\ \A i \in DOMAIN LibraryOf(before) :
            LibraryOf(before)[i] # get_addon_path(tree, rocks, LastName).val)
        => LibraryOf(disable(tree, rocks, settings, LastName).file) = LibraryOf(before)

\* C5: disable is idempotent: once disable(name) has run for an installed
\* name, running disable(name) again leaves the library list as the first run
\* left it.
C5_DisableIdempotent ==
    (last.op = "disable" /\ IsInstalled(LastName))
        => LibraryOf(disable(tree, rocks, settings, LastName).file) = LibraryOf(settings)

\* C5 witness: a disable of an installed name that removed an entry
C5_Witness ==
    /\ last.op = "disable"
    /\ last.res.tag = "Ok"
    /\ IsInstalled(LastName)
    /\ Len(LibraryOf(settings)) < Len(LibraryOf(before))

\* C6: unrelated settings survive toggling: a successful enable or disable
\* leaves every top-level key other than Lua.workspace.library with its value
\* and adds no other key (so any sequence of them does).
C6_UnrelatedSettingsSurvive ==
    (last.op \in {"enable", "disable"} /\ last.res.tag = "Ok")
        => RestOf(settings) = RestOf(before)

\* C6 witness: an enable rewrote a file that holds other settings
C6_Witness ==
    /\ last.op = "enable"
    /\ last.res.tag = "Ok"
    /\ settings # before
    /\ DOMAIN RestOf(before) = {"files.eol", "editor.tabSize"}
    /\ RestOf(before)["editor.tabSize"] = JOther("2")

\* the last command got as far as looking the addon up: list_enabled
\* returned Ok and the already-enabled (already-disabled) test did not end it
ReachedLookup ==
    LET enabled == list_enabled(tree, before, Some(LastName))
    IN  /\ enabled.tag = "Ok"
        /\ last.op = "enable" =>
              \A i \in DOMAIN enabled.val : enabled.val[i].name # LastName
        /\ last.op = "disable" =>
              \A i \in DOMAIN enabled.val : enabled.val[i].name = LastName

\* C7 as claimed: enable(name) and disable(name), when they return, return an
\* error naming the addon whenever no installed addon is named exactly name,
\* and the settings file is then neither created nor modified.
C7_NotInstalledIsError ==
    (/\ last.op \in {"enable", "disable"}
     /\ last.res.tag # "Panic"
     /\ ~IsInstalled(LastName))
        => /\ last.res = Err([not_installed |-> LastName])
           /\ settings = before

\* C7 as amended: when no installed addon is named exactly name, the settings
\* file is neither created nor modified, and the call returns the error naming
\* the addon if it gets as far as the lookup.
C7_NotInstalledAmended ==
    (last.op \in {"enable", "disable"} /\ ~IsInstalled(LastName))
        => /\ settings = before
           /\ ReachedLookup => last.res = Err([not_installed |-> LastName])

\* C7 witness: an enable of a name that is not installed, with an addon of
\* another name enabled, returned the error
C7_Witness ==
    /\ last.op = "enable"
    /\ ~IsInstalled(LastName)
    /\ list_enabled(tree, before, Some(LastName)).tag = "Ok"
    /\ list_enabled(tree, before, Some(LastName)).val # <<>>
    /\ last.res = Err([not_installed |-> LastName])

\* the file is an object without the Lua.workspace.library key
NoLibraryKey(file) ==
    /\ file.kind = "object"
    /\ \A i \in DOMAIN file.members : file.members[i].key # LIB_SETTINGS_KEY

\* C8: list_enabled returns Ok with an empty list, for any filter, when the
\* settings file does not exist, holds no JSON value, or is an object without
\* the Lua.workspace.library key.
C8_EmptyIsNotAnError ==
    (/\ last.op = "list_enabled"
     /\ before.kind \in {"missing", "empty"} \/ NoLibraryKey(before))
        => last.res = Ok(<<>>)

\* C8 witness: list_enabled with a filter ran on an object that has other
\* settings and no library key
C8_Witness ==
    /\ last.op = "list_enabled"
    /\ last.arg # None
    /\ NoLibraryKey(settings)
    /\ settings.members # <<>>

\* the file holds a list of strings under Lua.workspace.library
HasLibrary(file) ==
    /\ file.kind = "object"
    /\ \E i \in DOMAIN file.members : file.members[i].key = LIB_SETTINGS_KEY
    /\ ObjectMap(file.members)[LIB_SETTINGS_KEY].t = "strings"

\* an entry as the claims describe an accepted one: relative, its leading
\* segments those of {tree}/lib/luarocks, its final segment `types`
Conforms(e) ==
    LET c == Components(e)
        m == Components(Prefix(tree))
    IN  /\ e = <<>> \/ Head(e) # "/"
        /\ Len(c) >= Len(m)
        /\ \A i \in 1..Len(m) : c[i] = m[i]
        /\ c # <<>>
        /\ c[Len(c)] = TYPES

\* the Addon the claims describe for an entry: the segment before `types` is
\* the version, the one before it the name, the entry itself the location
AddonOfSegments(e) ==
    LET c == Components(e)
    IN  Addon(c[Len(c) - 2], c[Len(c) - 1], Some(e))

\* C9: list_enabled without a filter returns exactly one Addon per accepted
\* entry, in the library's order: version the segment before the final
\* `types`, name the segment before that, location the entry unchanged.
C9_OneAddonPerAcceptedEntry ==
    (last.op = "list_enabled" /\ last.arg = None /\ HasLibrary(before))
        => last.res = Ok([i \in DOMAIN SelectSeq(LibraryOf(before), Conforms) |->
                            AddonOfSegments(SelectSeq(LibraryOf(before), Conforms)[i])])

\* C10: only relative entries under {tree}/lib/luarocks that end in `types`
\* contribute to list_enabled: every Addon returned comes from such an entry,
\* and the other entries change nothing in what list_enabled returns.
C10_OnlyConformingEntriesCount ==
    (last.op = "list_enabled" /\ HasLibrary(before))
        => /\ last.res.tag = "Ok" =>
                \A i \in DOMAIN last.res.val :
                    \E j \in DOMAIN LibraryOf(before) :
                        /\ LibraryOf(before)[j] = last.res.val[i].location[1]
                        /\ Conforms(LibraryOf(before)[j])
           /\ last.res =
                list_enabled(tree,
                    ObjectText(<<Member(LIB_SETTINGS_KEY,
                        JStrings(SelectSeq(LibraryOf(before), Conforms)))>>),
                    last.arg)

\* C10 witness: list_enabled returned an Addon from a library that also holds
\* an absolute entry, or one outside the prefix, or one not ending in `types`
C10_Witness ==
    /\ last.op = "list_enabled"
    /\ HasLibrary(before)
    /\ last.res.tag = "Ok"
    /\ last.res.val # <<>>
    /\ \E j \in DOMAIN LibraryOf(before) : ~Conforms(LibraryOf(before)[j])

\* the values of the results with this tag, in the results' order
RECURSIVE ValuesTagged(_, _)
ValuesTagged(results, tag) ==
    IF results = <<>> THEN <<>>
    ELSE (IF Head(results).tag = tag THEN <<Head(results).val>> ELSE <<>>)
         \o ValuesTagged(Tail(results), tag)

\* C11: from_results returns the successes in their original order when no
\* result failed, the failure itself (unwrapped) when exactly one failed, and
\* with two or more failures an AggregateError holding all of them in the
\* order met, whose rendered text contains every underlying message.
C11_FromResultsCollects ==
    last.op = "from_results" =>
        LET failures == ValuesTagged(last.arg, "Err")
        IN  /\ failures = <<>> => last.res = Ok(ValuesTagged(last.arg, "Ok"))
            /\ Len(failures) = 1 => last.res = Err(failures[1])
            /\ Len(failures) >= 2 =>
                  /\ last.res = Err([aggregate |-> failures])
                  /\ \A i \in DOMAIN failures :
                        contains(fmt(last.res.val.aggregate), failures[i].message)

\* C11 witness: a success between two different failures was collected
C11_Witness ==
    /\ last.op = "from_results"
    /\ Len(last.arg) = 3
    /\ last.arg[1].tag = "Err"
    /\ last.arg[2].tag = "Ok"
    /\ last.arg[3].tag = "Err"
    /\ last.arg[1] # last.arg[3]
    /\ last.res.tag = "Err"

\* C11 witness of the other two cases: a lone failure among successes
C11_WitnessOne ==
    /\ last.op = "from_results"
    /\ Len(last.arg) = 3
    /\ Len(ValuesTagged(last.arg, "Err")) = 1
    /\ last.res = Err(ValuesTagged(last.arg, "Err")[1])

\* the value the precedence rule gives option k: the flag's, else the config
\* file's, else the default
ByPrecedence(cli, file, k) ==
    IF cli[k] # None THEN cli[k][1]
    ELSE IF file.kind = "Toml" /\ file.maybe_config[k] # None
         THEN file.maybe_config[k][1]
    ELSE Config_default[k]

\* C12: for each of luarocks, tree, settings and server, the effective value
\* is that option's own flag when given, otherwise the config file's value
\* when it sets one, otherwise the built-in default.
C12_ConfigPrecedence ==
    (last.op = "main_config" /\ last.res.tag = "Ok")
        => \A k \in OptionNames :
              last.res.val[k] = ByPrecedence(last.arg.cli, last.arg.file, k)

\* C12 for the options other than tree
C12_PrecedenceExceptTree ==
    (last.op = "main_config" /\ last.res.tag = "Ok")
        => \A k \in OptionNames \ {"tree"} :
              last.res.val[k] = ByPrecedence(last.arg.cli, last.arg.file, k)

\* C12: a run with --tree, and a config file that sets tree, got a Config
C12_Witness ==
    /\ last.op = "main_config"
    /\ last.res.tag = "Ok"
    /\ last.arg.cli.tree # None
    /\ last.arg.file.kind = "Toml"
    /\ last.arg.file.maybe_config.tree # None

\* C13 as claimed: two Addon values with equal name and equal version compare
\* equal whatever their location fields are.
C13_EqualWhateverLocation ==
    (/\ last.op = "eq"
     /\ last.arg[1].name = last.arg[2].name
     /\ last.arg[1].version = last.arg[2].version)
        => last.res = Ok(TRUE)

\* C13 as amended: two Addon values compare equal exactly when their names,
\* their versions and their locations are equal; with equal name and version
\* and different locations they compare unequal.
C13_EqualIffAllFieldsEqual ==
    last.op = "eq" =>
        /\ last.res = Ok(TRUE) <=>
              \A f \in {"name", "version", "location"} : last.arg[1][f] = last.arg[2][f]
        /\ (/\ last.arg[1].name = last.arg[2].name
            /\ last.arg[1].version = last.arg[2].version
            /\ last.arg[1].location # last.arg[2].location) => last.res = Ok(FALSE)

\* C13 witness: an Addon with a location was compared with the Addon of the
\* same name and version without one
C13_Witness ==
    /\ last.op = "eq"
    /\ last.arg[1].name = last.arg[2].name
    /\ last.arg[1].version = last.arg[2].version
    /\ last.arg[1].location # None
    /\ last.arg[2].location = None

\* the entry is accepted and has at least two segments between the
\* {tree}/lib/luarocks prefix and the final `types`
AcceptedWithNameAndVersion(e) ==
    /\ accepts(tree, e)
    /\ Len(Components(e)) >= Len(Components(Prefix(tree))) + 3

\* C14: for every accepted path p with at least two segments between the
\* prefix and the final `types`, decoding p, encoding the decoded addon's
\* location as get_addon_path does, and decoding that path again gives the
\* same name and version as decoding p.
C14_IdentityRoundTrip ==
    \A i \in DOMAIN LibraryOf(settings) :
        LET p == LibraryOf(settings)[i]
        IN  (AcceptedWithNameAndVersion(p) /\ decode(p).tag = "Ok") =>
                LET again == decode(types_path(decode(p).val.location[1]))
                IN  /\ again.tag = "Ok"
                    /\ again.val.name = decode(p).val.name
                    /\ again.val.version = decode(p).val.version

\* the last command was an enable that went on to rewrite the library: the
\* name is installed and list_enabled did not report it
EnableProceeded ==
    /\ last.op = "enable"
    /\ last.res.tag = "Ok"
    /\ IsInstalled(LastName)
    /\ ReachedLookup

\* the location list_installed reports for the first addon named name:
\* <rocks dir>/<name>/<version>/types
InstalledLocation(name) ==
    LET installed == list_installed(tree, rocks, Some(name)).val
    IN  SelectSeq(installed, LAMBDA addon : addon.name = name)[1].location[1]

\* C15: when enable(name) proceeds, the new library list is the old list, in
\* its order, followed by exactly one new last entry: the addon's types
\* directory <rocks dir>/<name>/<version>/types with a single trailing
\* `types`, the string list_installed reports as the addon's location.
C15_EnableAppendsTypesDir ==
    EnableProceeded =>
        LibraryOf(settings) = Append(LibraryOf(before), InstalledLocation(LastName))

\* C15 without the entry's value: the old list, in its order, then one entry
C15_EnableAppendsOneLast ==
    EnableProceeded =>
        /\ Len(LibraryOf(settings)) = Len(LibraryOf(before)) + 1
        /\ SubSeq(LibraryOf(settings), 1, Len(LibraryOf(before))) = LibraryOf(before)

\* the last command was a disable that went on to its removal step: the name
\* is installed and the already-disabled test did not end the call
DisableProceeded ==
    /\ last.op = "disable"
    /\ last.res.tag = "Ok"
    /\ IsInstalled(LastName)
    /\ ReachedLookup

\* the library without the entries equal to path, the others in their order
RECURSIVE Without(_, _)
Without(library, path) ==
    IF library = <<>> THEN <<>>
    ELSE (IF Head(library) = path THEN <<>> ELSE <<Head(library)>>)
         \o Without(Tail(library), path)

\* the number of entries equal to path
Occurrences(library, path) ==
    Cardinality({i \in DOMAIN library : library[i] = path})

\* C16: when disable(name) proceeds to its removal step, the new library list
\* is the old list with every entry equal to the resolved path removed, all
\* duplicates of it, and every other entry kept in its original order; an
\* entry for the same name under a different path is not removed.
C16_DisableRemovesExactPath ==
    DisableProceeded =>
        LET path == get_addon_path(tree, rocks, LastName).val
        IN  /\ LibraryOf(settings) = Without(LibraryOf(before), path)
            /\ Occurrences(LibraryOf(settings), path) = 0
            /\ \A e \in ToggleEntries(tree) :
                  e # path =>
                      Occurrences(LibraryOf(settings), e) = Occurrences(LibraryOf(before), e)

\* C16 witness: a disable removed two copies of the resolved path and kept
\* another entry
C16_Witness ==
    /\ DisableProceeded
    /\ Occurrences(LibraryOf(before), get_addon_path(tree, rocks, LastName).val) = 2
    /\ Len(LibraryOf(settings)) = 1

\* C16 witness of the last part: a disable proceeded on a library that holds
\* an entry of the same name under another path, and kept it
C16_WitnessSameName ==
    /\ DisableProceeded
    /\ Reports(before, None, LastName)
    /\ Reports(settings, None, LastName)

\* the file holds text that is not JSON with comments, or a value that does
\* not fit VSCodeSettings: not an object, or Lua.workspace.library is
\* neither absent, null nor a list of strings
BadSettings(file) ==
    \/ file.kind \in {"malformed", "nonobject"}
    \/ /\ file.kind = "object"
       /\ \E i \in DOMAIN file.members : file.members[i].key = LIB_SETTINGS_KEY
       /\ ObjectMap(file.members)[LIB_SETTINGS_KEY].t \notin {"null", "strings"}

\* C17: if the settings file holds text that is not valid JSON with comments,
\* or a value that does not fit the settings shape, then list_enabled, enable
\* and disable each return an error and leave the file's content unchanged.
C17_BadSettingsIsError ==
    (last.op \in {"list_enabled", "enable", "disable"} /\ BadSettings(before))
        => last.res.tag = "Err" /\ settings = before

\* C17 witness: enable of an installed addon ran on a file with a syntax error
C17_Witness ==
    /\ last.op = "enable"
    /\ IsInstalled(LastName)
    /\ before.kind = "malformed"
    /\ last.res.tag = "Err"

\* C17 witness of the shape case: disable ran on an object with other
\* settings whose Lua.workspace.library is not a list
C17_WitnessShape ==
    /\ last.op = "disable"
    /\ IsInstalled(LastName)
    /\ before.kind = "object"
    /\ BadSettings(before)
    /\ RestOf(before) # <<>>
    /\ last.res.tag = "Err"

HoldsOutside(file) ==
    \E i \in DOMAIN LibraryOf(file) : LibraryOf(file)[i] = EntryOutside

\* C18: the settings read-modify-write is not atomic.  What a call writes is
\* made of the contents it read, whatever the file holds when it writes, so
\* an update written in between is lost (C18_Witness is reachable), and two
\* interleaved enable calls for one name can both pass the already-enabled
\* test and both append the path (C18_WitnessBothAppend is reachable).
C18_WriteIsMadeOfTheRead ==
    (last.op = "write" /\ last.res.tag = "Ok") =>
        LET call == calls[last.arg]
            f == Closure(IF call.op = "enable" THEN "enable_in_library"
                         ELSE "disable_in_library", call.path[1])
        IN  settings = update_library(call.contents[1], f).file

\* C18 witness: the other program's entry was in the file when a call wrote,
\* not in the contents the call had read, and is not in the file now
C18_Witness ==
    /\ last.op = "write"
    /\ last.res.tag = "Ok"
    /\ HoldsOutside(before)
    /\ ~HoldsOutside(calls[last.arg].contents[1])
    /\ ~HoldsOutside(settings)

\* C18 witness: two enable calls passed the already-enabled test on the same
\* file, before either wrote, and the path of each is in the library
C18_WitnessBothAppend ==
    /\ \A p \in Callers :
          /\ calls[p].op = "enable"
          /\ calls[p].pc = "done"
          /\ calls[p].res = Some(Ok(<<>>))
          /\ calls[p].path # None
    /\ calls[1].seen = calls[2].seen
    /\ calls[1].path = calls[2].path
    /\ Occurrences(LibraryOf(settings), calls[1].path[1])
          = Occurrences(LibraryOf(calls[1].seen[1]), calls[1].path[1]) + 2

\* C19: starting from a settings file with no addon entries, after any
\* sequence of enable and disable calls, with any installed set, the library
\* list never holds the same path twice and never holds two entries for the
\* same addon name.
C19_OneEntryPerAddon ==
    LET library == LibraryOf(settings)
        addon(i) == decode(library[i])
    IN  \A i, j \in DOMAIN library :
            i # j =>
                /\ library[i] # library[j]
                /\ (/\ accepts(tree, library[i]) /\ addon(i).tag = "Ok"
                    /\ accepts(tree, library[j]) /\ addon(j).tag = "Ok")
                        => addon(i).val.name # addon(j).val.name

\* C20: list_enabled never aborts: for every list of strings under
\* Lua.workspace.library, every accepted entry has a parent and a grandparent
\* that both have a final segment, so no expect() of the decoding step fails,
\* entries with `..` segments or directly under the prefix included.
C20_ListEnabledNeverAborts ==
    last.op = "list_enabled" => last.res.tag # "Panic"

\* C20, of the entries: every accepted entry has a parent and a grandparent
\* that both have a final segment
C20_AcceptedHaveNames ==
    \A i \in DOMAIN LibraryOf(settings) :
        accepts(tree, LibraryOf(settings)[i]) =>
            LET version == parent(Components(LibraryOf(settings)[i]))
            IN  /\ version # None
                /\ file_name(version[1]) # None
                /\ parent(version[1]) # None
                /\ file_name(parent(version[1])[1]) # None

\* C20 for the entries without a `..` segment: no expect() fails on them
C20_NoAbortWithoutParentDir ==
    \A i \in DOMAIN LibraryOf(settings) :
        (/\ accepts(tree, LibraryOf(settings)[i])
         /\ \A k \in DOMAIN Components(LibraryOf(settings)[i]) :
               Components(LibraryOf(settings)[i])[k] # ParentDir)
            => decode(LibraryOf(settings)[i]).tag = "Ok"

====
